---- MODULE Spec2Model ----
(***************************************************************************)
(* Model of the worker-fullstack backend (src/src/server/index.ts): a Hono *)
(* application with two GET routes and a GET catch-all that serves static  *)
(* files, plus the React component that calls it (src/README.md, App).     *)
(*                                                                         *)
(* A path is the sequence of its segments: "/api/health" is                *)
(* <<"api", "health">> and "/" is << >>.                                   *)
(***************************************************************************)
EXTENDS Naturals, Sequences, FiniteSets, TLC

\* Number of requests the worker receives in one run.
MaxReqs == 2

Methods == {"GET", "HEAD", "POST"}

Paths == { << >>,
           <<"api", "health">>,
           <<"api", "hello">>,
           <<"api", "unknown">> }

\* Values of the request's Accept header.
Accepts == {"*/*", "text/html"}

\* Files the build may have put in the served directory.
Files == { <<"index.html">>, <<"api", "health">>, <<"api", "hello">> }

ReqIds == 1..MaxReqs

VARIABLES
  routes,    \* the application's routing table, in registration order
  assets,    \* the files of the served directory
  reqs,      \* per request: its fields and the position of its handling
  lookups,   \* the static lookups made so far: <<request id, file>>
  fe         \* the frontend component: its position and its message state

vars == <<routes, assets, reqs, lookups, fe>>

----------------------------------------------------------------------------
(* JSON serialisation: an object is a sequence of <<key, value>> pairs of  *)
(* strings, serialised in order as JSON.stringify does.                    *)

Quote(s) == "\"" \o s \o "\""

RECURSIVE JSONMembers(_)
JSONMembers(obj) ==
  IF obj = << >> THEN ""
  ELSE Quote(obj[1][1]) \o ":" \o Quote(obj[1][2])
       \o (IF Len(obj) > 1 THEN "," ELSE "") \o JSONMembers(Tail(obj))

JSONStringify(obj) == "{" \o JSONMembers(obj) \o "}"

\* c.json(obj): status 200, content-type application/json, serialised body.
JsonResponse(obj) ==
  [status |-> 200, ctype |-> "application/json", body |-> JSONStringify(obj)]

\* c.text(text, status)
TextResponse(text, status) ==
  [status |-> status, ctype |-> "text/plain", body |-> text]

----------------------------------------------------------------------------
(* The handlers of index.ts.  c is the request context.                    *)

HealthPayload == << <<"status", "ok">>, <<"message", "Server is running">> >>

HelloPayload == << <<"message", "Hello from Hono!">> >>

\* Mutant of HealthHandler: the status member is left out of the payload.
HealthHandlerNoStatus(c) ==
  JsonResponse(<< <<"message", "Server is running">> >>)

HealthHandler(c) == JsonResponse(HealthPayload)

\* Mutant of HelloHandler: the greeting is sent as plain text.
HelloHandlerText(c) == [status |-> 200, ctype |-> "text/plain",
                        body |-> "Hello from Hono!"]

HelloHandler(c) == JsonResponse(HelloPayload)

\* Mutant of RouteTable: the catch-all is registered before the API routes.
RouteTableStaticFirst ==
  << [method |-> "GET", pattern |-> <<"*">>,             handler |-> "serveStatic"],
     [method |-> "GET", pattern |-> <<"api", "health">>, handler |-> "health"],
     [method |-> "GET", pattern |-> <<"api", "hello">>,  handler |-> "hello"] >>

\* The routing table after module load: app.get registers for GET only.
\* The pattern <<"*">> is the wildcard.
RouteTable ==
  << [method |-> "GET", pattern |-> <<"api", "health">>, handler |-> "health"],
     [method |-> "GET", pattern |-> <<"api", "hello">>,  handler |-> "hello"],
     [method |-> "GET", pattern |-> <<"*">>,             handler |-> "serveStatic"] >>

----------------------------------------------------------------------------
(* Hono's dispatch.                                                        *)

\* Mutant of MatchRoute: a pattern applies to every path under its first
\* segment.
MatchRoutePrefix(route, method, path) ==
  /\ route.method = method
  /\ \/ route.pattern = <<"*">>
     \/ route.pattern = path
     \/ path # << >> /\ route.pattern[1] = path[1]

\* Mutant of MatchRoute: the route's method is not compared (app.all).
MatchRouteAnyMethod(route, method, path) ==
  route.pattern = <<"*">> \/ route.pattern = path

\* A route applies when its method is the request's and its pattern is the
\* wildcard or the path itself.
MatchRoute(route, method, path) ==
  /\ route.method = method
  /\ (route.pattern = <<"*">> \/ route.pattern = path)

\* The handlers of the routes that apply, in registration order.
RECURSIVE MatchedHandlers(_, _, _)
MatchedHandlers(table, method, path) ==
  IF table = << >> THEN << >>
  ELSE (IF MatchRoute(table[1], method, path)
          THEN << table[1].handler >> ELSE << >>)
       \o MatchedHandlers(Tail(table), method, path)

\* Mutant of DispatchMethod: HEAD is matched as itself.
DispatchMethodAsIs(method) == method

\* app.fetch dispatches a HEAD request as GET.
DispatchMethod(method) == IF method = "HEAD" THEN "GET" ELSE method

\* app.fetch answers a HEAD request with the GET response without its body.
Finalize(method, res) ==
  IF method = "HEAD" THEN [res EXCEPT !.body = ""] ELSE res

\* Mutant of NotFoundHandler: the body is negotiated on the Accept header.
NotFoundHandlerNegotiated(c) ==
  IF c.accept = "text/html"
    THEN [status |-> 404, ctype |-> "text/html", body |-> "<h1>404 Not Found</h1>"]
    ELSE [status |-> 404, ctype |-> "text/plain", body |-> "404 Not Found"]

\* The default not-found handler, run when no handler produced a response.
NotFoundHandler(c) == TextResponse("404 Not Found", 404)

----------------------------------------------------------------------------
(* serveStatic({ root: './' })                                             *)

\* The file a path names under the root; a directory path names its
\* default document.
FilePath(path) == IF path = << >> THEN <<"index.html">> ELSE path

RECURSIVE FileName(_)
FileName(file) ==
  IF file = << >> THEN ""
  ELSE file[1] \o (IF Len(file) > 1 THEN "/" ELSE "") \o FileName(Tail(file))

\* The content the asset store holds for a file.
FileBytes(file) == "<bytes of " \o FileName(file) \o ">"

\* The content type of a file, from its extension; "" when it has none.
GetMimeType(file) ==
  IF file[Len(file)] = "index.html" THEN "text/html" ELSE ""

\* Mutant of StaticResponse: every file is sent as application/octet-stream.
StaticResponseOctet(file) ==
  [status |-> 200, ctype |-> "application/octet-stream", body |-> FileBytes(file)]

\* The response serveStatic builds for a file the store holds.
StaticResponse(file) ==
  [status |-> 200, ctype |-> GetMimeType(file), body |-> FileBytes(file)]

----------------------------------------------------------------------------
(* State                                                                   *)

NoRes == [status |-> 0, ctype |-> "", body |-> ""]

NoReq == [pc |-> "idle", method |-> "", path |-> << >>, accept |-> "",
          chain |-> << >>, idx |-> 0, res |-> NoRes]

Init ==
  /\ routes = RouteTable
  /\ assets \in SUBSET Files
  /\ reqs = [i \in ReqIds |-> NoReq]
  /\ lookups = {}
  /\ fe = [pc |-> "unmounted", req |-> 0, message |-> ""]

\* The worker receives request i: app.fetch matches it against the table.
Accept(i, method, path, accept) ==
  /\ reqs[i].pc = "idle"
  /\ i > 1 => reqs[i - 1].pc # "idle"
  /\ reqs' = [reqs EXCEPT ![i] =
       [pc |-> "handle", method |-> method, path |-> path, accept |-> accept,
        chain |-> MatchedHandlers(routes, DispatchMethod(method), path),
        idx |-> 1, res |-> NoRes]]

Receive(i) ==
  /\ \E method \in Methods, path \in Paths, accept \in Accepts :
       Accept(i, method, path, accept)
  /\ UNCHANGED <<routes, assets, lookups, fe>>

\* The handler the request's chain has reached, "" past its end.
Current(r) == IF r.idx <= Len(r.chain) THEN r.chain[r.idx] ELSE ""

\* Mutant of Respond: the response is kept in one slot shared by the
\* requests being handled.
RespondShared(i, res) ==
  reqs' = [j \in ReqIds |->
             IF j = i \/ reqs[j].pc \in {"handle", "asset"}
               THEN [reqs[j] EXCEPT !.pc = "done",
                                    !.res = Finalize(reqs[j].method, res)]
               ELSE reqs[j]]

Respond(i, res) ==
  reqs' = [reqs EXCEPT ![i].pc = "done",
                       ![i].res = Finalize(reqs[i].method, res)]

CallHealth(i) ==
  /\ reqs[i].pc = "handle"
  /\ Current(reqs[i]) = "health"
  /\ Respond(i, HealthHandler(reqs[i]))
  /\ UNCHANGED <<routes, assets, lookups, fe>>

CallHello(i) ==
  /\ reqs[i].pc = "handle"
  /\ Current(reqs[i]) = "hello"
  /\ Respond(i, HelloHandler(reqs[i]))
  /\ UNCHANGED <<routes, assets, lookups, fe>>

\* serveStatic asks the asset store for the file and awaits the answer.
ServeStaticLookup(i) ==
  /\ reqs[i].pc = "handle"
  /\ Current(reqs[i]) = "serveStatic"
  /\ lookups' = lookups \cup { <<i, FilePath(reqs[i].path)>> }
  /\ reqs' = [reqs EXCEPT ![i].pc = "asset"]
  /\ UNCHANGED <<routes, assets, fe>>

\* The store holds the file: serveStatic answers with it.
ServeStaticFound(i) ==
  /\ reqs[i].pc = "asset"
  /\ FilePath(reqs[i].path) \in assets
  /\ Respond(i, StaticResponse(FilePath(reqs[i].path)))
  /\ UNCHANGED <<routes, assets, lookups, fe>>

\* The store does not hold the file: serveStatic calls next().
ServeStaticNext(i) ==
  /\ reqs[i].pc = "asset"
  /\ FilePath(reqs[i].path) \notin assets
  /\ reqs' = [reqs EXCEPT ![i].pc = "handle", ![i].idx = @ + 1]
  /\ UNCHANGED <<routes, assets, lookups, fe>>

\* No handler answered: the not-found handler does.
NotFound(i) ==
  /\ reqs[i].pc = "handle"
  /\ Current(reqs[i]) = ""
  /\ Respond(i, NotFoundHandler(reqs[i]))
  /\ UNCHANGED <<routes, assets, lookups, fe>>

----------------------------------------------------------------------------
(* The frontend component App (README.md).                                 *)

\* The objects a response body of this model can be the serialisation of.
JSONObjects == { HealthPayload, HelloPayload, << >> }

\* res.json() succeeds when the body is the serialisation of an object.
JSONParses(body) == \E obj \in JSONObjects : JSONStringify(obj) = body

JSONParse(body) == CHOOSE obj \in JSONObjects : JSONStringify(obj) = body

Undefined == "<undefined>"

\* Mutant of Member: no member is ever found.
MemberMissing(obj, key) == Undefined

\* obj[key], undefined when the object has no such member.
RECURSIVE Member(_, _)
Member(obj, key) ==
  IF obj = << >> THEN Undefined
  ELSE IF obj[1][1] = key THEN obj[1][2] ELSE Member(Tail(obj), key)

\* {message || 'Loading...'}
Rendered(message) ==
  IF message # "" /\ message # Undefined THEN message ELSE "Loading..."

\* useEffect on mount: fetch('/api/hello'), which the worker receives as
\* request i.
FeMount(i) ==
  /\ fe.pc = "unmounted"
  /\ Accept(i, "GET", <<"api", "hello">>, "*/*")
  /\ fe' = [fe EXCEPT !.pc = "pending", !.req = i]
  /\ UNCHANGED <<routes, assets, lookups>>

\* fetch rejects (the network failed): .catch logs the error.
FeReject ==
  /\ fe.pc = "pending"
  /\ fe' = [fe EXCEPT !.pc = "failed"]
  /\ UNCHANGED <<routes, assets, reqs, lookups>>

\* The response arrives: res.json(), then setMessage(data.message); a body
\* that is not JSON goes to .catch.
FeResolve ==
  /\ fe.pc = "pending"
  /\ reqs[fe.req].pc = "done"
  /\ LET body == reqs[fe.req].res.body IN
       fe' = IF JSONParses(body)
               THEN [fe EXCEPT !.pc = "settled",
                               !.message = Member(JSONParse(body), "message")]
               ELSE [fe EXCEPT !.pc = "failed"]
  /\ UNCHANGED <<routes, assets, reqs, lookups>>

----------------------------------------------------------------------------

Next ==
  \/ \E i \in ReqIds : Receive(i)
  \/ \E i \in ReqIds : CallHealth(i)
  \/ \E i \in ReqIds : CallHello(i)
  \/ \E i \in ReqIds : ServeStaticLookup(i)
  \/ \E i \in ReqIds : ServeStaticFound(i)
  \/ \E i \in ReqIds : ServeStaticNext(i)
  \/ \E i \in ReqIds : NotFound(i)
  \/ \E i \in ReqIds : FeMount(i)
  \/ FeReject
  \/ FeResolve

Spec == Init /\ [][Next]_vars

----------------------------------------------------------------------------
(* Properties                                                              *)

ApiPaths == { <<"api", "health">>, <<"api", "hello">> }

HealthBody == "{\"status\":\"ok\",\"message\":\"Server is running\"}"

HelloBody == "{\"message\":\"Hello from Hono!\"}"

NotFoundBody == "404 Not Found"

IsDone(i) == reqs[i].pc = "done"

Consulted(i) == \E l \in lookups : l[1] = i

\* The path lies under /api/.
UnderApi(path) == path # << >> /\ path[1] = "api"

\* C1: every GET /api/health, whatever its Accept header and whatever files
\* the served directory holds, is answered 200, application/json, with the
\* health payload.
C1_HealthResponse ==
  \A i \in ReqIds :
    (IsDone(i) /\ reqs[i].method = "GET" /\ reqs[i].path = <<"api", "health">>)
      => reqs[i].res = [status |-> 200, ctype |-> "application/json",
                        body |-> HealthBody]

C1_Witness ==
  \E i \in ReqIds :
    /\ IsDone(i) /\ reqs[i].method = "GET"
    /\ reqs[i].path = <<"api", "health">>
    /\ reqs[i].accept = "text/html"
    /\ <<"api", "health">> \in assets

\* C2: every GET /api/hello, whatever its Accept header and whatever files
\* the served directory holds, is answered 200, application/json, with the
\* hello payload.
C2_HelloResponse ==
  \A i \in ReqIds :
    (IsDone(i) /\ reqs[i].method = "GET" /\ reqs[i].path = <<"api", "hello">>)
      => reqs[i].res = [status |-> 200, ctype |-> "application/json",
                        body |-> HelloBody]

C2_Witness ==
  \E i \in ReqIds :
    /\ IsDone(i) /\ reqs[i].method = "GET"
    /\ reqs[i].path = <<"api", "hello">>
    /\ reqs[i].accept = "text/html"
    /\ <<"api", "hello">> \in assets

\* C3: a GET request to /api/health or /api/hello never reaches the static
\* lookup and gets the API payload, also when a file of that name exists.
C3_ApiBeforeStatic ==
  \A i \in ReqIds :
    (reqs[i].method = "GET" /\ reqs[i].path \in ApiPaths)
      => /\ ~Consulted(i)
         /\ reqs[i].pc # "asset"
         /\ IsDone(i) =>
              reqs[i].res.body =
                (IF reqs[i].path = <<"api", "health">> THEN HealthBody
                                                        ELSE HelloBody)

C3_Witness ==
  \E i, j \in ReqIds :
    /\ IsDone(i) /\ reqs[i].method = "GET" /\ reqs[i].path = <<"api", "health">>
    /\ IsDone(j) /\ reqs[j].method = "GET" /\ reqs[j].path = <<"api", "hello">>
    /\ ApiPaths \subseteq assets

\* C4 as stated: every request to a path that is not an API path, whatever
\* its method, has consulted the static lookup with its path by the time it
\* is answered.
C4_AnyMethodStatic ==
  \A i \in ReqIds :
    (IsDone(i) /\ reqs[i].path \notin ApiPaths)
      => <<i, FilePath(reqs[i].path)>> \in lookups

\* C4 amended: a GET or HEAD request that matches no API route consults the
\* static lookup with its path, and is answered 200 when the file exists and
\* 404 when it does not; a request of any other method is answered 404
\* without a lookup.
C4_GetStatic ==
  \A i \in ReqIds :
    IsDone(i) =>
      /\ (reqs[i].method \in {"GET", "HEAD"} /\ reqs[i].path \notin ApiPaths)
           => /\ <<i, FilePath(reqs[i].path)>> \in lookups
              /\ reqs[i].res.status =
                   (IF FilePath(reqs[i].path) \in assets THEN 200 ELSE 404)
      /\ reqs[i].method \notin {"GET", "HEAD"}
           => /\ ~Consulted(i)
              /\ reqs[i].res.status = 404

C4_Witness ==
  \E i, j \in ReqIds :
    /\ IsDone(i) /\ reqs[i].method = "GET" /\ reqs[i].path = << >>
    /\ reqs[i].res.status = 200
    /\ IsDone(j) /\ reqs[j].method = "POST" /\ reqs[j].path = << >>

\* C5 as stated: a request to /api/health or /api/hello is answered 200 with
\* the route's payload whatever its method.
C5_MethodIndependent ==
  \A i \in ReqIds :
    (IsDone(i) /\ reqs[i].path \in ApiPaths /\ reqs[i].method \in {"GET", "POST"})
      => /\ reqs[i].res.status = 200
         /\ reqs[i].res.body =
              (IF reqs[i].path = <<"api", "health">> THEN HealthBody
                                                      ELSE HelloBody)

\* C5 amended: the API routes are GET routes.  GET is answered 200 with the
\* payload; HEAD is answered 200, application/json, with no body; any other
\* method is answered 404 by the not-found handler and never the payload.
C5_MethodGuard ==
  \A i \in ReqIds :
    (IsDone(i) /\ reqs[i].path \in ApiPaths) =>
      LET payload == IF reqs[i].path = <<"api", "health">> THEN HealthBody
                                                           ELSE HelloBody
      IN  /\ reqs[i].method = "GET"
               => reqs[i].res.status = 200 /\ reqs[i].res.body = payload
          /\ reqs[i].method = "HEAD"
               => reqs[i].res = [status |-> 200, ctype |-> "application/json",
                                 body |-> ""]
          /\ reqs[i].method \notin {"GET", "HEAD"}
               => reqs[i].res = [status |-> 404, ctype |-> "text/plain",
                                 body |-> NotFoundBody]

C5_Witness ==
  \E i, j \in ReqIds :
    /\ IsDone(i) /\ reqs[i].method = "POST" /\ reqs[i].path = <<"api", "hello">>
    /\ IsDone(j) /\ reqs[j].method = "HEAD" /\ reqs[j].path = <<"api", "health">>

\* C6 as stated: every request, whatever its method, to a path outside
\* /api/ whose file exists is answered 200 with the file's bytes and content
\* type.
C6_AnyMethodAsset ==
  \A i \in ReqIds :
    (IsDone(i) /\ ~UnderApi(reqs[i].path) /\ FilePath(reqs[i].path) \in assets
       /\ reqs[i].method \in {"GET", "POST"})
      => reqs[i].res = [status |-> 200, ctype |-> "text/html",
                        body |-> "<bytes of index.html>"]

\* C6 amended: every GET request to a path outside /api/ whose file exists
\* is answered 200 with the file's bytes and content type, unaltered.
C6_GetAsset ==
  \A i \in ReqIds :
    (IsDone(i) /\ ~UnderApi(reqs[i].path) /\ FilePath(reqs[i].path) \in assets
       /\ reqs[i].method = "GET")
      => reqs[i].res = [status |-> 200, ctype |-> "text/html",
                        body |-> "<bytes of index.html>"]

C6_Witness ==
  \E i \in ReqIds :
    /\ IsDone(i) /\ reqs[i].method = "GET" /\ reqs[i].path = << >>
    /\ <<"index.html">> \in assets
    /\ <<i, <<"index.html">> >> \in lookups

\* C7: a GET request to a path other than /api/health and /api/hello, paths
\* under /api/ included, is answered by the static lookup's outcome (the
\* file, or 404) and never with the health or hello payload.
C7_OnlyExactApiPaths ==
  \A i \in ReqIds :
    (IsDone(i) /\ reqs[i].method = "GET" /\ reqs[i].path \notin ApiPaths)
      => /\ reqs[i].res.body \notin {HealthBody, HelloBody}
         /\ Consulted(i)
         /\ \/ /\ FilePath(reqs[i].path) \in assets
               /\ reqs[i].res.status = 200
               /\ reqs[i].res.body = FileBytes(FilePath(reqs[i].path))
            \/ /\ FilePath(reqs[i].path) \notin assets
               /\ reqs[i].res.status = 404
               /\ reqs[i].res.body = NotFoundBody

C7_Witness ==
  \E i \in ReqIds :
    /\ IsDone(i) /\ reqs[i].method = "GET"
    /\ reqs[i].path = <<"api", "unknown">>
    /\ reqs[i].res.status = 404

\* C8: two answered requests with the same method and path have the same
\* status, content type and body, whatever their headers and whatever was
\* handled in between.
C8_Deterministic ==
  \A i, j \in ReqIds :
    (IsDone(i) /\ IsDone(j) /\ reqs[i].method = reqs[j].method
       /\ reqs[i].path = reqs[j].path)
      => reqs[i].res = reqs[j].res

C8_Witness ==
  \E i, j \in ReqIds :
    /\ i # j /\ IsDone(i) /\ IsDone(j)
    /\ reqs[i].method = "GET" /\ reqs[j].method = "GET"
    /\ reqs[i].path = << >> /\ reqs[j].path = << >>
    /\ reqs[i].accept # reqs[j].accept
    /\ reqs[i].res.status = 404

\* The component has mounted and shows this text.
Shown == Rendered(fe.message)

\* C9: on mount the frontend sends GET /api/hello; it shows 'Loading...'
\* while the request is pending or has failed; once the response with the
\* message has arrived it shows 'Hello from Hono!', and a shown message is
\* never replaced by the placeholder again.
C9_Frontend ==
  /\ [](fe.pc # "unmounted" =>
          /\ reqs[fe.req].method = "GET"
          /\ reqs[fe.req].path = <<"api", "hello">>)
  /\ [](fe.pc \in {"pending", "failed"} => Shown = "Loading...")
  /\ [](fe.pc = "settled" => Shown = "Hello from Hono!")
  /\ [][fe.pc = "unmounted" => fe'.pc \in {"unmounted", "pending"}]_vars
  /\ [][Shown # "Loading..." => Rendered(fe'.message) = Shown]_vars

C9_Witness ==
  /\ fe.pc = "settled"
  /\ Shown = "Hello from Hono!"
  /\ reqs[fe.req].res.body = HelloBody

\* One request handled from start to end with nothing else in progress.
RECURSIVE RunChain(_, _, _)
RunChain(chain, c, files) ==
  IF chain = << >> THEN NotFoundHandler(c)
  ELSE IF chain[1] = "health" THEN HealthHandler(c)
  ELSE IF chain[1] = "hello" THEN HelloHandler(c)
  ELSE IF FilePath(c.path) \in files THEN StaticResponse(FilePath(c.path))
  ELSE RunChain(Tail(chain), c, files)

HandledAlone(c, files) ==
  Finalize(c.method,
           RunChain(MatchedHandlers(RouteTable, DispatchMethod(c.method), c.path),
                    c, files))

\* C10: in every interleaving each request gets the response it would get
\* handled alone; a step changes at most one request, never an answered
\* one, and leaves the routing table and the files as they were.
C10_Independent ==
  /\ [](\A i \in ReqIds :
          IsDone(i) => reqs[i].res = HandledAlone(reqs[i], assets))
  /\ [][/\ routes' = routes
        /\ assets' = assets
        /\ \A i \in ReqIds : IsDone(i) => reqs'[i] = reqs[i]
        /\ \A i, j \in ReqIds :
             (reqs'[i] # reqs[i] /\ reqs'[j] # reqs[j]) => i = j]_vars

C10_Witness ==
  \E i, j \in ReqIds :
    /\ i < j
    /\ reqs[i].pc = "asset"
    /\ IsDone(j)
    /\ reqs[j].res # HandledAlone(reqs[i], assets)

====
